---------------------------- MODULE Spec2Model ----------------------------
(***************************************************************************)
(* Model of src/app.py: the Gn starting-protocol prediction page.          *)
(*                                                                         *)
(* Values.  Every Python value the page handles is a record [k, v]:        *)
(*   k = "fin"   a finite float; v is FOUR TIMES the number (fixed point   *)
(*               with two fractional bits, enough for the quartile         *)
(*               interpolation of np.percentile to be exact)               *)
(*   k = "nan"   float NaN                                                 *)
(*   k = "inf"   +infinity (v = 1) or -infinity (v = -1)                   *)
(*   k = "arr"   a numpy float array, v the sequence of its entries        *)
(*   k = "none"  Python None                                               *)
(*   k = "int"   a Python int, v the integer itself                        *)
(*   k = "str"   the string "N/A" (v = 0)                                  *)
(*   k = "ValueError" / "KeyError"  the exception the call raised          *)
(*   k = "unset" a name not assigned yet                                   *)
(***************************************************************************)
EXTENDS Integers, Sequences, FiniteSets, TLC

VARIABLES
    pc,           \* position of the run
    err,          \* exception that ended the run, "none" while it runs
    \* percentile_rank called on its own
    values_arr,   \* the reference sample argument
    x,            \* the observed value of the last call
    pr,           \* the result of the last call
    x_prev,       \* the observed value of the call before the last
    pr_prev,      \* the result of the call before the last
    \* get_dist_stats called on its own
    dist_obj,     \* the distribution entry argument
    stats,        \* the result
    \* the page run
    typed,                      \* what the user entered in the sidebar widgets
    user_input,                 \* what the form collected, in collection order
    input_df_filled,            \* the one-row frame after astype and fillna
    X_core, X_all,              \* the two model inputs
    trigger_label_day_mapping,  \* class -> day table (loaded artifact)
    trigger_label,              \* class the trigger classifier predicted
    trigger_day_pred,           \* the resolved day
    results_shown,              \* the results block was rendered
    e2_percentiles,             \* reference distributions (loaded artifact)
    i,                          \* index of the monitoring round in the loop
    bars,                       \* rounds whose P25-P75 bar was drawn
    points,                     \* rounds whose value was plotted and labelled
    percentile_text,            \* the explanation lines collected
    rank_calls,                 \* the percentile_rank calls made: key, sample
    e2_shown,                   \* the E2 figure was handed to st.pyplot
    base_chart,                 \* the baseline figure shown, unset before
    base_text,                  \* the baseline explanation line
    warning                     \* st.warning was called

rankVars  == <<values_arr, x, pr, x_prev, pr_prev>>
statsVars == <<dist_obj, stats>>
formVars  == <<typed, user_input, input_df_filled, X_core, X_all>>
predVars  == <<trigger_label_day_mapping, trigger_label, trigger_day_pred,
               results_shown>>
plotVars  == <<e2_percentiles, i, bars, points, percentile_text, rank_calls,
               e2_shown, base_chart, base_text, warning>>
vars == <<pc, err, rankVars, statsVars, formVars, predVars, plotVars>>

---------------------------------------------------------------------------
(* Values *)

Fin(n)   == [k |-> "fin", v |-> 4 * n]
NaN      == [k |-> "nan", v |-> 0]
PosInf   == [k |-> "inf", v |-> 1]
NegInf   == [k |-> "inf", v |-> -1]
None     == [k |-> "none", v |-> 0]
Unset    == [k |-> "unset", v |-> 0]
PyInt(n) == [k |-> "int", v |-> n]
Raised(e) == [k |-> e, v |-> 0]

Arr(s)   == [k |-> "arr", v |-> s]

IsNone(a)   == a.k = "none"
IsNaN(a)    == a.k = "nan"
IsFinite(a) == a.k = "fin"

\* IEEE-754 "a < b": false as soon as one side is NaN
FloatLess(a, b) ==
    IF IsNaN(a) \/ IsNaN(b) THEN FALSE
    ELSE IF a.k = "inf" THEN a.v = -1 /\ ~(b.k = "inf" /\ b.v = -1)
    ELSE IF b.k = "inf" THEN b.v = 1
    ELSE a.v < b.v

---------------------------------------------------------------------------
(* binary64 arithmetic of line 120.  A positive double is [sig, exp] with  *)
(* value sig * 2^exp, where sig is a 53-bit significand (2^52 <= sig <     *)
(* 2^53) held as three limbs [h, m, l] = h * 2^36 + m * 2^18 + l, so that  *)
(* every intermediate fits a machine integer.  Rounding is IEEE            *)
(* round-to-nearest, ties-to-even.                                         *)

LimbBits == 18
Base     == 2^LimbBits
TopBits  == 17                      \* 17 + 18 + 18 = 53 bits of precision

\* sig + 1 (the caller renormalises when h reaches 2^TopBits)
SigIncrement(sig) ==
    IF sig.l + 1 < Base THEN [sig EXCEPT !.l = @ + 1]
    ELSE IF sig.m + 1 < Base THEN [sig EXCEPT !.m = @ + 1, !.l = 0]
    ELSE [h |-> sig.h + 1, m |-> 0, l |-> 0]

\* the double of significand sig (rounded up by one unit when up) and
\* exponent exp
Rounded(sig, up, exp) ==
    LET r == IF up THEN SigIncrement(sig) ELSE sig
    IN  IF r.h = 2^TopBits
        THEN [sig |-> [h |-> 2^(TopBits - 1), m |-> 0, l |-> 0], exp |-> exp + 1]
        ELSE [sig |-> r, exp |-> exp]

\* least s with c * 2^s >= n
RECURSIVE NormShift(_, _)
NormShift(c, n) == IF c >= n THEN 0 ELSE 1 + NormShift(2 * c, n)

\* np.int64(c) / n for 0 < c <= n < 2^13: the correctly rounded quotient,
\* by long division in limbs
TrueDivide(c, n) ==
    LET s  == NormShift(c, n)
        t1 == c * 2^s * 2^(TopBits - 1)
        t2 == (t1 % n) * Base
        t3 == (t2 % n) * Base
        r3 == t3 % n
        q  == [h |-> t1 \div n, m |-> t2 \div n, l |-> t3 \div n]
        up == 2 * r3 > n \/ (2 * r3 = n /\ q.l % 2 = 1)
    IN  Rounded(q, up, 0 - (TopBits + 2 * LimbBits - 1) - s)

\* q * 100: the exact product, rounded back to 53 bits
TimesHundred(q) ==
    LET pl   == q.sig.l * 100
        pm   == q.sig.m * 100 + pl \div Base
        ph   == q.sig.h * 100 + pm \div Base
        d    == IF ph >= 2^(TopBits + 6) THEN 7 ELSE 6   \* bits to drop
        low  == (pl % Base) % 2^d
        kept == [h |-> ph \div 2^d,
                 m |-> (pm % Base) \div 2^d + (ph % 2^d) * 2^(LimbBits - d),
                 l |-> (pl % Base) \div 2^d + ((pm % Base) % 2^d) * 2^(LimbBits - d)]
        up   == low > 2^(d - 1) \/ (low = 2^(d - 1) /\ kept.l % 2 = 1)
    IN  Rounded(kept, up, q.exp + d)

\* round(d) of a positive double below 2^TopBits: nearest integer, ties to
\* even
RoundHalfEven(d) ==
    LET g    == 0 - d.exp - 2 * LimbBits      \* fraction bits held in limb h
        ip   == d.sig.h \div 2^g
        fh   == d.sig.h % 2^g
        half == fh >= 2^(g - 1)
        rest == fh % 2^(g - 1) # 0 \/ d.sig.m # 0 \/ d.sig.l # 0
    IN  IF half /\ (rest \/ ip % 2 = 1) THEN ip + 1 ELSE ip

---------------------------------------------------------------------------
(* percentile_rank, lines 117-120 *)

\* variant: counts the entries above x instead of those below
RECURSIVE CountLess_Greater(_, _)
CountLess_Greater(arr, xv) ==
    IF arr = <<>> THEN 0
    ELSE (IF FloatLess(xv, arr[1]) THEN 1 ELSE 0)
         + CountLess_Greater(Tail(arr), xv)

\* np.sum(values_arr < x)
RECURSIVE CountLess(_, _)
CountLess(arr, xv) ==
    IF arr = <<>> THEN 0
    ELSE (IF FloatLess(arr[1], xv) THEN 1 ELSE 0) + CountLess(Tail(arr), xv)

\* variant: the count is scaled but never divided by the sample size
RankOfCount_NoDivide(c, n) ==
    IF n = 0 THEN Raised("ValueError") ELSE PyInt(c * 100)

\* int(round((c / n) * 100)) in binary64; 0 / 0 is NaN and round(NaN) raises
RankOfCount(c, n) ==
    IF n = 0 THEN Raised("ValueError")
    ELSE IF c = 0 THEN PyInt(0)
    ELSE PyInt(RoundHalfEven(TimesHundred(TrueDivide(c, n))))

percentile_rank(arr, xv) ==
    IF IsNone(arr) \/ IsNaN(xv) THEN None
    ELSE RankOfCount(CountLess(arr.v, xv), Len(arr.v))

---------------------------------------------------------------------------
(* get_dist_stats, lines 96-115 *)

Dict(f) == [k |-> "dict", v |-> f]
Stats(a, b, c, vals) ==
    [k |-> "stats", v |-> [p25 |-> a, p50 |-> b, p75 |-> c, values |-> vals]]

\* d.get(key, default)
DictGet(d, key, default) == IF key \in DOMAIN d.v THEN d.v[key] ELSE default

\* variant: every non-finite entry is dropped
Clean_Finite(sq) == SelectSeq(sq, LAMBDA e : IsFinite(e))

\* arr[~np.isnan(arr)]
Clean(sq) == SelectSeq(sq, LAMBDA e : ~IsNaN(e))

RECURSIVE Insert(_, _)
Insert(e, sorted) ==
    IF sorted = <<>> THEN <<e>>
    ELSE IF FloatLess(sorted[1], e) THEN <<sorted[1]>> \o Insert(e, Tail(sorted))
    ELSE <<e>> \o sorted

\* the entries of a NaN-free array in ascending order
RECURSIVE Sort(_)
Sort(sq) == IF sq = <<>> THEN <<>> ELSE Insert(sq[1], Sort(Tail(sq)))

\* variant: the entry at the floor of the virtual index, no interpolation
Percentile_Lower(sq, q) ==
    {Sort(sq)[((Len(sq) - 1) * q) \div 100 + 1]}

\* np.percentile(arr, q), default (linear) method, on a non-empty NaN-free
\* array: the virtual index (n - 1) * q / 100 splits into a position and a
\* fraction, and the result interpolates between the two neighbours.  With
\* whole-number entries and q a multiple of 25 the result is exact in
\* quarters.  When a neighbour is infinite the result depends on the numpy
\* build (inf - inf and inf * 0 arise): every non-finite outcome is allowed,
\* and the lower neighbour itself when the fraction is zero.
Percentile(sq, q) ==
    LET srt == Sort(sq)
        n   == Len(sq)
        pos == (n - 1) * q
        lo  == srt[pos \div 100 + 1]
        hi  == srt[IF pos \div 100 + 2 <= n THEN pos \div 100 + 2 ELSE n]
        g   == pos % 100
    IN  IF IsFinite(lo) /\ IsFinite(hi)
        THEN {[k |-> "fin", v |-> lo.v + ((hi.v - lo.v) * g) \div 100]}
        ELSE {NaN, PosInf, NegInf} \cup (IF g = 0 THEN {lo} ELSE {})

\* variant: the emptiness test of line 108 is missing
get_dist_stats_NoEmptyCheck(d) ==
    IF IsNone(d) THEN {None}
    ELSE IF d.k = "dict"
    THEN {Stats(DictGet(d, "p25", None), DictGet(d, "p50", None),
                DictGet(d, "p75", None), None)}
    ELSE LET arr == Clean(d.v)
         IN  IF Len(arr) = 0 THEN {Stats(NaN, NaN, NaN, Arr(arr))}
             ELSE {Stats(a, b, c, Arr(arr)) :
                       a \in Percentile(arr, 25), b \in Percentile(arr, 50),
                       c \in Percentile(arr, 75)}

\* the results get_dist_stats(d) can return
get_dist_stats(d) ==
    IF IsNone(d) THEN {None}
    ELSE IF d.k = "dict"
    THEN {Stats(DictGet(d, "p25", None), DictGet(d, "p50", None),
                DictGet(d, "p75", None), None)}
    ELSE LET arr == Clean(d.v)
         IN  IF Len(arr) = 0 THEN {None}
             ELSE {Stats(a, b, c, Arr(arr)) :
                       a \in Percentile(arr, 25), b \in Percentile(arr, 50),
                       c \in Percentile(arr, 75)}

---------------------------------------------------------------------------
(* Feature definitions, lines 27-45.  The field names are transliterated:  *)
(* age, bmi, base_X for the baseline endocrine value X, left_AFC and       *)
(* right_AFC for the antral follicle counts, X_r for the serum value X of  *)
(* monitoring round r, and the three follicle fields of round 3.           *)

MODEL_CORE_FEATURES ==
    <<"age", "bmi", "base_FSH", "base_E2", "base_PRL",
      "base_LH", "base_T", "base_AMH", "left_AFC", "right_AFC">>

MODEL_DYNAMIC_FEATURES ==
    <<"E2_1", "LH_1", "FSH_1", "P_1", "Day_1",
      "E2_2", "LH_2", "FSH_2", "P_2", "Day_2",
      "E2_3", "LH_3", "FSH_3", "P_3", "Day_3",
      "max_follicle_day_3", "left_max_follicle_diam_3",
      "right_max_follicle_diam_3">>

MODEL_ALL_FEATURES == MODEL_CORE_FEATURES \o MODEL_DYNAMIC_FEATURES

UI_CORE_ORDER ==
    <<"age", "bmi",
      "base_FSH", "base_LH", "base_PRL",
      "base_E2", "base_T", "base_AMH",
      "left_AFC", "right_AFC">>

\* the order in which lines 50-64 fill user_input
FormOrder ==
    UI_CORE_ORDER
    \o <<"E2_1", "LH_1", "FSH_1", "P_1">> \o <<"Day_1">>
    \o <<"E2_2", "LH_2", "FSH_2", "P_2">> \o <<"Day_2">>
    \o <<"E2_3", "LH_3", "FSH_3", "P_3">> \o <<"Day_3">>
    \o <<"max_follicle_day_3", "left_max_follicle_diam_3",
         "right_max_follicle_diam_3">>

---------------------------------------------------------------------------
(* The form, lines 48-64 *)

\* st.sidebar.number_input(label, value=0.0): the number entered, the
\* default 0.0 when the widget is left untouched
number_input(widgets, label) ==
    IF label \in DOMAIN widgets THEN widgets[label] ELSE Fin(0)

---------------------------------------------------------------------------
(* Feature assembly, lines 67-73.  A dict or one-row frame is the sequence *)
(* of its [name, val] columns in insertion order.                          *)

HasColumn(df, name) == \E j \in 1..Len(df) : df[j].name = name
Column(df, name)    == df[CHOOSE j \in 1..Len(df) : df[j].name = name].val

\* pd.DataFrame([user_input]).astype(float): None becomes NaN
AsTypeFloat(df) ==
    [j \in 1..Len(df) |->
        [name |-> df[j].name, val |-> IF IsNone(df[j].val) THEN NaN ELSE df[j].val]]

\* input_df.fillna(0.0)
FillNa(df) ==
    [j \in 1..Len(df) |->
        [name |-> df[j].name, val |-> IF IsNaN(df[j].val) THEN Fin(0) ELSE df[j].val]]

HasAll(df, names) == \A j \in 1..Len(names) : HasColumn(df, names[j])

\* variant: the first columns of the frame are taken as they come
Select_Positional(df, names) == [j \in 1..Len(names) |-> df[j].val]

\* input_df_filled[names], the columns picked by name in the order of names
Select(df, names) == [j \in 1..Len(names) |-> Column(df, names[j])]

---------------------------------------------------------------------------
(* Trigger-day resolution, line 82 *)

NA == [k |-> "str", v |-> 0]      \* the string "N/A"

\* variant: the table is subscripted, an unknown class raises
ResolveTriggerDay_Subscript(mapping, label) ==
    IF label.v \in DOMAIN mapping.v THEN mapping.v[label.v]
    ELSE Raised("KeyError")

\* trigger_label_day_mapping.get(trigger_label, "N/A")
ResolveTriggerDay(mapping, label) == DictGet(mapping, label.v, NA)

---------------------------------------------------------------------------
(* Bounds and input sets *)

MaxSmallLen == 4     \* samples of every shape up to this length
MaxRunLen   == 40    \* sorted two-value samples up to this length
MaxRawLen   == 5     \* raw distribution arrays up to this length

SampleValues == {NaN, NegInf, Fin(10), Fin(20), Fin(30), PosInf}
XValues      == {NaN, NegInf, Fin(10), Fin(20), Fin(30), PosInf}

SeqsUpTo(S, n) == UNION {[1..m -> S] : m \in 0..n}

Repeat(e, n) == [j \in 1..n |-> e]

\* a times 10.0 followed by b times 20.0
RunSamples == {Repeat(Fin(10), a) \o Repeat(Fin(20), b) :
                   a \in 0..MaxRunLen, b \in 0..MaxRunLen}

RawValues == {NaN, NegInf, PosInf, Fin(10), Fin(20), Fin(30), Fin(40)}

\* summary dicts: any subset of the three keys
SummaryValue == [p25 |-> Fin(15), p50 |-> Fin(25), p75 |-> Fin(35)]
Dicts == {Dict([key \in S |-> SummaryValue[key]]) : S \in SUBSET {"p25", "p50", "p75"}}

StatsInputs == {None} \cup Dicts
               \cup {Arr(sq) : sq \in SeqsUpTo(RawValues, MaxRawLen)}

MaxDeviations == 1  \* fields the user leaves blank or fills out of the ordinary
MaxPageLen    == 1  \* raw reference arrays of the page run up to this length
MaxLabel      == 2  \* trigger classes 0..MaxLabel

RECURSIVE SubsetsUpTo(_, _)
SubsetsUpTo(S, n) ==
    IF n = 0 THEN {{}}
    ELSE LET prev == SubsetsUpTo(S, n - 1)
         IN  prev \cup {sub \cup {e} : sub \in prev, e \in S}

FieldNames == {MODEL_ALL_FEATURES[j] : j \in 1..Len(MODEL_ALL_FEATURES)}

\* a plain value for each field, all different: its model position plus 4
FieldValue(name) ==
    Fin(4 + CHOOSE j \in 1..Len(MODEL_ALL_FEATURES) : MODEL_ALL_FEATURES[j] = name)

\* what the user can do with a field instead of entering its plain value:
\* leave it blank, or enter NaN, a negative number or zero
Deviant == [blank |-> Unset, nan |-> NaN, negative |-> Fin(-5), zero |-> Fin(0)]

\* the widget state in which the fields of dev deviate: a value for every
\* field that is not left blank
TypedWith(dev) ==
    [name \in {f \in FieldNames : f \notin DOMAIN dev \/ dev[f] # "blank"} |->
        IF name \in DOMAIN dev THEN Deviant[dev[name]] ELSE FieldValue(name)]

TypedInputs ==
    {TypedWith(dev) :
        dev \in UNION {[S -> DOMAIN Deviant] :
                          S \in SubsetsUpTo(FieldNames, MaxDeviations)}}

\* the page run: every field left blank, or every field entered
PageTypedInputs == {<<>>, TypedWith(<<>>)}

\* class -> day tables: the empty table, and the table that knows every
\* class but the last, class c being day 10 + c
MappingTables ==
    {Dict(<<>>), Dict([c \in 0..(MaxLabel - 1) |-> PyInt(10 + c)])}
Labels == {PyInt(c) : c \in 0..MaxLabel}

\* reference distributions: each of the four keys absent, a summary dict or
\* a raw array
E2_KEYS      == <<"E2_1", "E2_2", "E2_3">>
BASE_REF_KEY == "ref_base_E2"
BASE_E2_KEY  == "base_E2"
PageValues   == {NaN, Fin(10)}
PageEntries  ==
    {Dict(SummaryValue), Dict([key \in {"p50", "p75"} |-> SummaryValue[key]])}
    \cup {Arr(sq) : sq \in SeqsUpTo(PageValues, MaxPageLen)}
DistTables ==
    {Dict(f) : f \in UNION {[S -> PageEntries] :
                   S \in SUBSET {"E2_1", "E2_2", "E2_3", BASE_REF_KEY}}}

RankSamples == {Arr(sq) : sq \in SeqsUpTo(SampleValues, MaxSmallLen)}
               \cup {Arr(sq) : sq \in {r \in RunSamples : Len(r) <= MaxRunLen}}
               \cup {None}

---------------------------------------------------------------------------
(* Values the variables of the other runs hold while one run is explored *)

IdleRank  == /\ values_arr = None /\ x = Unset /\ pr = Unset
             /\ x_prev = Unset /\ pr_prev = Unset
IdleStats == dist_obj = None /\ stats = Unset
IdleForm  == /\ typed = <<>> /\ user_input = <<>> /\ input_df_filled = <<>>
             /\ X_core = <<>> /\ X_all = <<>>
IdlePred  == /\ trigger_label_day_mapping = Dict(<<>>) /\ trigger_label = Unset
             /\ trigger_day_pred = Unset /\ results_shown = FALSE
IdlePlot  == /\ e2_percentiles = Dict(<<>>) /\ i = 1 /\ bars = {} /\ points = {}
             /\ percentile_text = <<>> /\ rank_calls = {} /\ e2_shown = FALSE
             /\ base_chart = Unset /\ base_text = Unset /\ warning = FALSE

---------------------------------------------------------------------------
(* percentile_rank called on its own: any sample, then any observed values *)

RankInit ==
    /\ pc = "rank" /\ err = "none"
    /\ values_arr \in RankSamples
    /\ x = Unset /\ pr = Unset /\ x_prev = Unset /\ pr_prev = Unset
    /\ IdleStats /\ IdleForm /\ IdlePred /\ IdlePlot

CallPercentileRank ==
    /\ pc = "rank"
    /\ \E xv \in XValues :
         /\ x' = xv
         /\ pr' = percentile_rank(values_arr, xv)
    /\ x_prev' = x
    /\ pr_prev' = pr
    /\ UNCHANGED <<pc, err, values_arr, statsVars, formVars, predVars, plotVars>>

RankNext == CallPercentileRank

SpecRank == RankInit /\ [][RankNext]_vars

\* ---- properties of percentile_rank ----

IsSample(a)   == a.k = "arr" /\ Len(a.v) > 0
Cleaned(a)    == \A j \in 1..Len(a.v) : ~IsNaN(a.v[j])
Called        == x # Unset
CalledTwice   == x_prev # Unset

StrictlyBelow(sq, xv) == Cardinality({j \in 1..Len(sq) : FloatLess(sq[j], xv)})

Dist(a, b) == IF a >= b THEN a - b ELSE b - a

\* the integer nearest to num / den (den > 0, 0 <= num <= 100 * den), the
\* even one of the two when num / den lies half way
NearestInt(num, den) ==
    CHOOSE r \in 0..100 :
        \/ 2 * Dist(num, r * den) < den
        \/ 2 * Dist(num, r * den) = den /\ r % 2 = 0

\* C1: for every non-empty sample and every non-NaN observed value the rank
\* is round(100 * (number of entries strictly below x) / (sample size)).
C1_RankIsRoundedShare ==
    (pc = "rank" /\ Called /\ IsSample(values_arr) /\ ~IsNaN(x))
    => pr = PyInt(NearestInt(100 * StrictlyBelow(values_arr.v, x),
                             Len(values_arr.v)))

\* C2: with the sample fixed (non-empty, cleaned), the rank is monotone in
\* the observed value: finite x1 < x2 give rank(x1) <= rank(x2).
C2_RankMonotone ==
    (pc = "rank" /\ CalledTwice /\ IsSample(values_arr) /\ Cleaned(values_arr)
        /\ IsFinite(x_prev) /\ IsFinite(x) /\ x_prev.v < x.v)
    => (pr_prev.k = "int" /\ pr.k = "int" /\ pr_prev.v <= pr.v)

C2_Witness ==
    /\ pc = "rank" /\ CalledTwice /\ IsSample(values_arr) /\ Cleaned(values_arr)
    /\ IsFinite(x_prev) /\ IsFinite(x) /\ x_prev.v < x.v
    /\ pr_prev.k = "int" /\ pr.k = "int" /\ pr_prev.v < pr.v

\* C3: for a non-empty cleaned sample and a finite observed value the rank
\* is an integer between 0 and 100.
C3_RankInRange ==
    (pc = "rank" /\ Called /\ IsSample(values_arr) /\ Cleaned(values_arr)
        /\ IsFinite(x))
    => (pr.k = "int" /\ 0 <= pr.v /\ pr.v <= 100)

C3_Witness ==
    /\ pc = "rank" /\ Called /\ IsSample(values_arr) /\ Cleaned(values_arr)
    /\ IsFinite(x) /\ Len(values_arr.v) > MaxSmallLen
    /\ pr.k = "int" /\ pr.v > 50 /\ pr.v < 100

\* C4: percentile_rank returns None, and raises nothing, whenever the sample
\* is None, the sample is an empty array, or the observed value is NaN.
C4_NoneWhenNoSample ==
    (pc = "rank" /\ Called
        /\ (IsNone(values_arr) \/ ~IsSample(values_arr) \/ IsNaN(x)))
    => pr = None

---------------------------------------------------------------------------
(* get_dist_stats called on its own: any distribution entry *)

StatsInit ==
    /\ pc = "stats" /\ err = "none"
    /\ dist_obj \in StatsInputs
    /\ stats = Unset
    /\ IdleRank /\ IdleForm /\ IdlePred /\ IdlePlot

CallGetDistStats ==
    /\ pc = "stats"
    /\ stats' \in get_dist_stats(dist_obj)
    /\ pc' = "stats_done"
    /\ UNCHANGED <<err, dist_obj, rankVars, formVars, predVars, plotVars>>

StatsNext == CallGetDistStats

SpecStats == StatsInit /\ [][StatsNext]_vars

\* ---- properties of get_dist_stats ----

IsRaw(d)      == d.k = "arr"
HasStats      == stats.k = "stats"
Quarters(n)   == [k |-> "fin", v |-> n]      \* the float n / 4

TheExample == Arr(<<NaN, Fin(10), Fin(20), Fin(30), Fin(40)>>)

\* C5 as stated: on [NaN, 10, 20, 30, 40] the result has p25 = 15.0,
\* p50 = 25.0, p75 = 35.0 and a cleaned array of length 4.
C5_AsStated ==
    (pc = "stats_done" /\ dist_obj = TheExample)
    => /\ HasStats
       /\ stats.v.p25 = Fin(15) /\ stats.v.p50 = Fin(25) /\ stats.v.p75 = Fin(35)
       /\ Len(stats.v.values.v) = 4

\* C5, amended: on [NaN, 10, 20, 30, 40] the result has p25 = 17.5,
\* p50 = 25.0, p75 = 32.5 (linear interpolation at the virtual index
\* (n - 1) * q / 100 of the cleaned array) and a cleaned array of length 4.
C5_ExampleQuartiles ==
    (pc = "stats_done" /\ dist_obj = TheExample)
    => /\ HasStats
       /\ stats.v.p25 = Quarters(70) /\ stats.v.p50 = Quarters(100)
       /\ stats.v.p75 = Quarters(130)
       /\ stats.v.values = Arr(<<Fin(10), Fin(20), Fin(30), Fin(40)>>)

C5_Witness == pc = "stats_done" /\ dist_obj = TheExample /\ HasStats

\* number of entries of sq equal to w
Occurrences(sq, w) == Cardinality({j \in 1..Len(sq) : sq[j] = w})

\* sq with the entries at the positions outside keep removed
RECURSIVE Restrict(_, _, _)
Restrict(sq, keep, j) ==
    IF j > Len(sq) THEN <<>>
    ELSE (IF j \in keep THEN <<sq[j]>> ELSE <<>>) \o Restrict(sq, keep, j + 1)

\* C6 as stated: the array retained from a raw array holds finite entries
\* only (NaN, +infinity and -infinity are all stripped), and the result is
\* None when nothing remains.
C6_AsStated ==
    (pc = "stats_done" /\ IsRaw(dist_obj))
    => IF \E j \in 1..Len(dist_obj.v) : IsFinite(dist_obj.v[j])
       THEN /\ HasStats
            /\ \A j \in 1..Len(stats.v.values.v) : IsFinite(stats.v.values.v[j])
       ELSE stats = None

\* C6, amended: the array retained from a raw array is the input with
\* exactly its NaN entries removed, order kept; +infinity and -infinity are
\* retained; the result is None when nothing but NaN was there.
C6_OnlyNaNStripped ==
    (pc = "stats_done" /\ IsRaw(dist_obj))
    => LET keep == {j \in 1..Len(dist_obj.v) : dist_obj.v[j].k # "nan"}
       IN  IF keep = {} THEN stats = None
           ELSE /\ HasStats
                /\ stats.v.values = Arr(Restrict(dist_obj.v, keep, 1))

C6_Witness ==
    /\ pc = "stats_done" /\ IsRaw(dist_obj) /\ HasStats
    /\ Occurrences(dist_obj.v, NaN) > 0
    /\ Occurrences(stats.v.values.v, PosInf) > 0
    /\ Occurrences(stats.v.values.v, NegInf) > 0
    /\ Occurrences(stats.v.values.v, Fin(10)) > 0

\* C7: the result is None for an absent entry, an empty raw array and an
\* all-NaN raw array, and it is a stats record with a non-empty retained
\* array for every raw array with at least one non-NaN entry.
C7_NoStatsExactlyWhenNothingToRank ==
    /\ (pc = "stats_done" /\ IsNone(dist_obj)) => stats = None
    /\ (pc = "stats_done" /\ IsRaw(dist_obj)
          /\ Occurrences(dist_obj.v, NaN) = Len(dist_obj.v)) => stats = None
    /\ (pc = "stats_done" /\ IsRaw(dist_obj)
          /\ Occurrences(dist_obj.v, NaN) < Len(dist_obj.v))
       => (HasStats /\ stats.v.values.k = "arr" /\ Len(stats.v.values.v) > 0)

C7_Witness ==
    /\ pc = "stats_done" /\ IsRaw(dist_obj) /\ stats = None
    /\ Len(dist_obj.v) > 1 /\ Occurrences(dist_obj.v, NaN) = Len(dist_obj.v)

---------------------------------------------------------------------------
(* The page run, lines 47-183 *)

\* lines 48-64: every widget is read in form order and stored under its
\* field name
CollectForm ==
    /\ pc = "form"
    /\ user_input' = [j \in 1..Len(FormOrder) |->
                        [name |-> FormOrder[j],
                         val  |-> number_input(typed, FormOrder[j])]]
    /\ pc' = "assemble"
    /\ UNCHANGED <<err, typed, input_df_filled, X_core, X_all,
                   rankVars, statsVars, predVars, plotVars>>

\* lines 67-73: selecting a column the frame lacks raises KeyError
Assemble ==
    /\ pc = "assemble"
    /\ LET filled == FillNa(AsTypeFloat(user_input))
       IN  /\ input_df_filled' = filled
           /\ IF ~HasAll(filled, MODEL_CORE_FEATURES)
              THEN /\ pc' = "error" /\ err' = "KeyError"
                   /\ UNCHANGED <<X_core, X_all>>
              ELSE /\ X_core' = Select(filled, MODEL_CORE_FEATURES)
                   /\ IF ~HasAll(filled, MODEL_ALL_FEATURES)
                      THEN /\ pc' = "error" /\ err' = "KeyError"
                           /\ UNCHANGED X_all
                      ELSE /\ X_all' = Select(filled, MODEL_ALL_FEATURES)
                           /\ pc' = "predict"
                           /\ UNCHANGED err
    /\ UNCHANGED <<typed, user_input, rankVars, statsVars, predVars, plotVars>>

\* lines 76-82: the models are opaque, the trigger classifier returns some
\* class; the other predictions are only displayed
Predict ==
    /\ pc = "predict"
    /\ \E label \in Labels :
         /\ trigger_label' = label
         /\ trigger_day_pred' = ResolveTriggerDay(trigger_label_day_mapping, label)
    /\ pc' = "results"
    /\ UNCHANGED <<err, trigger_label_day_mapping, results_shown,
                   rankVars, statsVars, formVars, plotVars>>

\* lines 85-93
ShowResults ==
    /\ pc = "results"
    /\ results_shown' = TRUE
    /\ pc' = "e2_round"
    /\ UNCHANGED <<err, trigger_label_day_mapping, trigger_label,
                   trigger_day_pred, rankVars, statsVars, formVars, plotVars>>

\* lines 127-143: one iteration of the loop over the monitoring rounds
E2Round ==
    /\ pc = "e2_round"
    /\ \E st \in get_dist_stats(DictGet(e2_percentiles, E2_KEYS[i], None)) :
         LET key == E2_KEYS[i]
             val == Column(input_df_filled, key)
             bar == st # None /\ st.v.p25 # None /\ st.v.p75 # None
             rk  == percentile_rank(st.v.values, val)
         IN  /\ bars' = IF bar THEN bars \cup {i} ELSE bars
             /\ IF st # None /\ ~IsNaN(val)
                THEN /\ rank_calls' = rank_calls \cup
                                        {[key |-> key, sample |-> st.v.values]}
                     /\ IF rk.k = "ValueError"
                        THEN /\ pc' = "error" /\ err' = "ValueError"
                             /\ UNCHANGED <<i, points, percentile_text>>
                        ELSE /\ points' = points \cup {i}
                             /\ percentile_text' = Append(percentile_text,
                                    [key |-> key, val |-> val, pr |-> rk])
                             /\ i' = i + 1
                             /\ pc' = IF i = Len(E2_KEYS) THEN "e2_show" ELSE pc
                             /\ UNCHANGED err
                ELSE /\ i' = i + 1
                     /\ pc' = IF i = Len(E2_KEYS) THEN "e2_show" ELSE pc
                     /\ UNCHANGED <<err, points, percentile_text, rank_calls>>
    /\ UNCHANGED <<e2_percentiles, e2_shown, base_chart, base_text, warning,
                   rankVars, statsVars, formVars, predVars>>

\* lines 145-154
ShowE2Plot ==
    /\ pc = "e2_show"
    /\ e2_shown' = TRUE
    /\ pc' = "baseline"
    /\ UNCHANGED <<err, e2_percentiles, i, bars, points, percentile_text,
                   rank_calls, base_chart, base_text, warning,
                   rankVars, statsVars, formVars, predVars>>

\* lines 158-183: the figure is shown before the rank is computed
BaselinePlot ==
    /\ pc = "baseline"
    /\ \E st \in get_dist_stats(DictGet(e2_percentiles, BASE_REF_KEY, None)) :
         LET val == Column(input_df_filled, BASE_E2_KEY)
             rk  == percentile_rank(st.v.values, val)
         IN  IF st # None /\ ~IsNaN(val)
             THEN /\ base_chart' = [k |-> "chart",
                                    v |-> [bar    |-> st.v.p25 # None /\ st.v.p75 # None,
                                           median |-> st.v.p50 # None,
                                           point  |-> val]]
                  /\ rank_calls' = rank_calls \cup
                                     {[key |-> BASE_REF_KEY, sample |-> st.v.values]}
                  /\ IF rk.k = "ValueError"
                     THEN /\ pc' = "error" /\ err' = "ValueError"
                          /\ UNCHANGED base_text
                     ELSE /\ base_text' = [k |-> "text", v |-> [val |-> val, pr |-> rk]]
                          /\ pc' = "done"
                          /\ UNCHANGED err
                  /\ UNCHANGED warning
             ELSE /\ warning' = TRUE
                  /\ pc' = "done"
                  /\ UNCHANGED <<err, base_chart, base_text, rank_calls>>
    /\ UNCHANGED <<e2_percentiles, i, bars, points, percentile_text, e2_shown,
                   rankVars, statsVars, formVars, predVars>>

\* the artifacts are loaded (lines 14-23), nothing is collected or drawn yet
PageInit ==
    /\ pc = "form" /\ err = "none"
    /\ IdleRank /\ IdleStats
    /\ typed \in PageTypedInputs
    /\ user_input = <<>> /\ input_df_filled = <<>>
    /\ X_core = <<>> /\ X_all = <<>>
    /\ trigger_label_day_mapping \in MappingTables
    /\ trigger_label = Unset /\ trigger_day_pred = Unset /\ results_shown = FALSE
    /\ e2_percentiles \in DistTables
    /\ i = 1 /\ bars = {} /\ points = {} /\ percentile_text = <<>>
    /\ rank_calls = {} /\ e2_shown = FALSE
    /\ base_chart = Unset /\ base_text = Unset /\ warning = FALSE

PageNext ==
    \/ CollectForm \/ Assemble \/ Predict \/ ShowResults
    \/ E2Round \/ ShowE2Plot \/ BaselinePlot

SpecPage == PageInit /\ [][PageNext]_vars

---------------------------------------------------------------------------
(* The form and the feature assembly, lines 48-73, for any widget state *)

AssembleInit ==
    /\ pc = "form" /\ err = "none"
    /\ typed \in TypedInputs
    /\ user_input = <<>> /\ input_df_filled = <<>>
    /\ X_core = <<>> /\ X_all = <<>>
    /\ IdleRank /\ IdleStats /\ IdlePred /\ IdlePlot

AssembleNext == CollectForm \/ Assemble

SpecAssemble == AssembleInit /\ [][AssembleNext]_vars

\* ---- properties of the feature assembly ----

\* what the field must be in its position: 0.0 when the user left it blank
\* or entered NaN, otherwise the value entered, as it is
Expected(name) ==
    IF name \notin DOMAIN typed THEN Fin(0)
    ELSE IF typed[name].k = "nan" THEN Fin(0)
    ELSE typed[name]

NCore    == Len(MODEL_CORE_FEATURES)
NDynamic == Len(MODEL_DYNAMIC_FEATURES)

\* C8: whatever subset of the 28 fields the user leaves out or gives as
\* NaN, core holds the 10 core fields in model order and all holds those 10
\* followed by the 18 dynamic fields in model order, whatever the order the
\* form collected them in; absent and NaN fields are 0.0, supplied fields
\* are unchanged (negative ones too), and nothing is raised.
C8_AssembledInModelOrder ==
    pc \notin {"form", "assemble"} =>
        /\ err = "none" /\ pc = "predict"
        /\ DOMAIN X_core = 1..NCore
        /\ \A j \in 1..NCore : X_core[j] = Expected(MODEL_CORE_FEATURES[j])
        /\ DOMAIN X_all = 1..(NCore + NDynamic)
        /\ \A j \in 1..NCore : X_all[j] = X_core[j]
        /\ \A j \in 1..NDynamic :
             X_all[NCore + j] = Expected(MODEL_DYNAMIC_FEATURES[j])

C8_Witness ==
    /\ pc = "predict"
    /\ "base_E2" \notin DOMAIN typed
    /\ X_core[4] = Fin(0)
    /\ X_core[6] = FieldValue("base_LH")
    /\ X_all[11] = FieldValue("E2_1")

\* ---- properties of the page run ----

Entry(key) == IF key \in DOMAIN e2_percentiles.v THEN e2_percentiles.v[key]
              ELSE None

\* the entry gives "no stats": absent, or a raw array with nothing but NaN
NoStatsEntry(e) ==
    IsNone(e) \/ (IsRaw(e) /\ \A j \in 1..Len(e.v) : IsNaN(e.v[j]))

Processed(r) == (pc = "e2_round" /\ i > r) \/ pc \in {"e2_show", "baseline", "done"}
TextFor(key)   == \E j \in 1..Len(percentile_text) : percentile_text[j].key = key
RankedFor(key) == \E c \in rank_calls : c.key = key

\* the entry gives a P25-P75 bar: a raw array with a non-NaN entry, or a
\* summary dict holding both p25 and p75
BarEntry(e) ==
    \/ IsRaw(e) /\ ~NoStatsEntry(e)
    \/ e.k = "dict" /\ {"p25", "p75"} \subseteq DOMAIN e.v

\* C9: whatever reference entries are present, the run never fails on its
\* way to the end; a round without stats gets no bar, no point, no
\* annotation and no percentile_rank call, a round with stats is plotted,
\* annotated and ranked; the baseline without stats gets the warning and
\* no chart, with stats the chart and no warning.
C9_MissingReferenceSkipsField ==
    /\ err = "none" /\ pc # "error"
    /\ \A r \in 1..Len(E2_KEYS) :
         Processed(r) =>
            IF NoStatsEntry(Entry(E2_KEYS[r]))
            THEN /\ r \notin bars /\ r \notin points
                 /\ ~TextFor(E2_KEYS[r]) /\ ~RankedFor(E2_KEYS[r])
            ELSE /\ r \in points /\ TextFor(E2_KEYS[r]) /\ RankedFor(E2_KEYS[r])
                 /\ r \in bars <=> BarEntry(Entry(E2_KEYS[r]))
    /\ pc = "done" =>
            IF NoStatsEntry(Entry(BASE_REF_KEY))
            THEN warning /\ base_chart = Unset /\ ~RankedFor(BASE_REF_KEY)
            ELSE /\ ~warning /\ base_chart.k = "chart"
                 /\ base_chart.v.bar <=> BarEntry(Entry(BASE_REF_KEY))
                 /\ base_text.k = "text" /\ RankedFor(BASE_REF_KEY)

C9_Witness ==
    /\ pc = "done"
    /\ "E2_1" \notin DOMAIN e2_percentiles.v /\ 1 \notin points
    /\ ~NoStatsEntry(Entry("E2_2")) /\ 2 \in points /\ 2 \in bars
    /\ Entry("E2_3") = Arr(<<NaN>>) /\ 3 \notin points
    /\ NoStatsEntry(Entry(BASE_REF_KEY)) /\ warning

\* C10: once the trigger class is predicted, the day is the table's day for
\* the class when the class is a key of the table and "N/A" when it is not,
\* and the run goes on to the results block without an error.
C10_TriggerDayResolved ==
    trigger_label # Unset =>
        /\ err = "none"
        /\ pc \in {"results", "e2_round", "e2_show", "baseline", "done"}
        /\ pc = "results" => ENABLED ShowResults
        /\ IF trigger_label.v \in DOMAIN trigger_label_day_mapping.v
           THEN trigger_day_pred = trigger_label_day_mapping.v[trigger_label.v]
           ELSE trigger_day_pred = NA

C10_Witness ==
    /\ results_shown
    /\ trigger_label.v \notin DOMAIN trigger_label_day_mapping.v
    /\ trigger_label_day_mapping.v # <<>>
    /\ trigger_day_pred = NA

=============================================================================
